---- MODULE Spec2Model ----
(***************************************************************************)
(* Model of restaurant_app.py: a Streamlit front end over a Firebase       *)
(* Realtime Database collection 'orders'.                                  *)
(*                                                                         *)
(* A record is a Python dict, modelled as a function whose DOMAIN is the   *)
(* set of keys that are present.  Firebase does not store None, so a key   *)
(* written as None is absent from the record that is read back.            *)
(* Text is a sequence of characters; SP is the blank.                      *)
(***************************************************************************)
EXTENDS Integers, Sequences, FiniteSets, TLC

\* ---------------------------------------------------------------- bounds
MaxOrders == 2          \* push() is called at most this many times
NumSessions == 2        \* browser sessions on the Kitchen Dashboard
MaxTime == 2            \* the clock runs from 0 to MaxTime ticks
TicksPerSecond == 2     \* clock ticks per second of the "%S" field
MaxRows == 3            \* records of a drawn collection of mixed orders
MaxOverflow == 1        \* records of a drawn collection beyond a list's window

\* ------------------------------------------------------ program constants
MinTable == 1           \* st.number_input(min_value=1, ...)
MaxTable == 100         \* st.number_input(..., max_value=100, ...)
CompletedWindow == 5    \* sorted_completed[:5], sorted_picked[:5]
AllOrdersWindow == 20   \* sorted_all[:20]
RecentWindow == 5       \* recent_orders = sorted(...)[:5]
PeakWindow == 5         \* sorted_hours[:5]
CustomerWindow == 5     \* sorted_customers[:5]
HoursPerDay == 24       \* hours = list(range(24))
SecondsPerHour == 3600  \* "%H" of the timestamp format
SecondsPerDay == 86400  \* "%Y-%m-%d" of the timestamp format

Ids == 1..MaxOrders
Sessions == 1..NumSessions
SP == " "
EmptyDict == <<>>

VARIABLES
    store,          \* db.reference('orders'): push key -> record
    nextKey,        \* the next push key (keys are unique and increasing)
    now,            \* datetime.now(), in ticks
    phase,          \* per session: "idle" or "run" (script past line 299)
    orders,         \* per session: the local `orders` read at line 269
    session_state,  \* per session: st.session_state and the values of its widgets
    last            \* the last operation, its arguments and its outcome

vars == <<store, nextKey, now, phase, orders, session_state, last>>

\* ------------------------------------------------------------ dict helpers
Get(d, k, default) == IF k \in DOMAIN d THEN d[k] ELSE default

Merge(d, u) == [k \in DOMAIN d \cup DOMAIN u |-> IF k \in DOMAIN u THEN u[k] ELSE d[k]]

\* str.strip(): drop leading and trailing blanks
RECURSIVE LStrip(_)
LStrip(s) == IF s # <<>> /\ Head(s) = SP THEN LStrip(Tail(s)) ELSE s

RECURSIVE RStrip(_)
RStrip(s) == IF s # <<>> /\ s[Len(s)] = SP THEN RStrip(SubSeq(s, 1, Len(s) - 1)) ELSE s

\* the text as typed, blanks kept
StripNothing(s) == s

Strip(s) == RStrip(LStrip(s))

\* datetime.now().strftime("%Y-%m-%d %H:%M:%S"): the clock cut to whole seconds
Strftime(t) == t \div TicksPerSecond

\* ---------------------------------------------------- store (firebase_admin)
\* Reference.push(value): a fresh key, None-valued fields are not stored
Push(db, key, value) == [k \in DOMAIN db \cup {key} |-> IF k = key THEN value ELSE db[k]]

\* Reference.child(id).set(fields): the record is replaced by the given fields
Set(db, id, fields) ==
    [k \in DOMAIN db \cup {id} |-> IF k = id THEN fields ELSE db[k]]

\* Reference.child(id).update(fields): merge; a missing child is created
Update(db, id, fields) ==
    [k \in DOMAIN db \cup {id} |-> IF k = id THEN Merge(Get(db, id, EmptyDict), fields) ELSE db[k]]

\* Reference.delete() on the collection: every record is removed
DeleteCollection(db, id) == [k \in {} |-> db[k]]

\* Reference.child(id).delete(): removing a missing child is not an error
Delete(db, id) == [k \in DOMAIN db \ {id} |-> db[k]]

\* the order of reversed(sorted(...)): with reverse, equal keys come out last first
BeforeReversed(key, reverse, a, b) ==
    \/ (IF reverse THEN key[a] > key[b] ELSE key[a] < key[b])
    \/ key[a] = key[b] /\ (IF reverse THEN a > b ELSE a < b)

\* sorted(d.items(), key=..., reverse=...): Python's sort is stable, also with
\* reverse=True, and d.items() iterates in key order
\* (key[k] is the sort key of item k)
Before(key, reverse, a, b) ==
    \/ (IF reverse THEN key[a] > key[b] ELSE key[a] < key[b])
    \/ key[a] = key[b] /\ a < b

Sorted(key, reverse) ==
    [i \in 1..Cardinality(DOMAIN key) |->
        CHOOSE a \in DOMAIN key :
            Cardinality({b \in DOMAIN key : Before(key, reverse, b, a)}) = i - 1]

\* seq[:n]
Take(seq, n) == {seq[i] : i \in {j \in DOMAIN seq : j <= n}}

\* seq[:n] as a list
Prefix(seq, n) == SubSeq(seq, 1, IF Len(seq) < n THEN Len(seq) ELSE n)

\* {k: v for k, v in d.items() if ...}: the items of d whose key is in keep
Filter(d, keep) == [k \in DOMAIN d \cap keep |-> d[k]]

\* ------------------------------------------------------- helper functions
None == "None"
NoId == 0

Outcome(op, id, ret, error) == [op |-> op, id |-> id, ret |-> ret, error |-> error]

\* the outcome of a "Send to Kitchen" press, with the fields that were entered
Submitted(op, id, ret, error, order_type, table_number, customer_name, items) ==
    [op |-> op, id |-> id, ret |-> ret, error |-> error, type |-> order_type,
     table |-> table_number, customer_name |-> customer_name, items |-> items]

\* get_orders(), lines 54-62: the collection, {} when it is empty or the read fails
get_orders(fail) == IF fail THEN EmptyDict ELSE store

\* the dict of lines 68-78 with completed_at stamped at creation
new_order_stamped(order_type, table_number, customer_name, customer_phone, items, pickup_time) ==
    IF order_type = "Dine-In"
    THEN [type |-> order_type, table |-> table_number, items |-> items,
          status |-> "Pending", timestamp |-> Strftime(now), completed_at |-> Strftime(now)]
    ELSE [type |-> order_type, customer_name |-> customer_name,
          customer_phone |-> customer_phone, pickup_time |-> pickup_time,
          items |-> items, status |-> "Pending", timestamp |-> Strftime(now),
          completed_at |-> Strftime(now)]

\* the dict built at lines 68-78, as push() stores it
new_order(order_type, table_number, customer_name, customer_phone, items, pickup_time) ==
    IF order_type = "Dine-In"
    THEN [type |-> order_type, table |-> table_number, items |-> items,
          status |-> "Pending", timestamp |-> Strftime(now)]
    ELSE [type |-> order_type, customer_name |-> customer_name,
          customer_phone |-> customer_phone, pickup_time |-> pickup_time,
          items |-> items, status |-> "Pending", timestamp |-> Strftime(now)]

\* add_order(...), lines 64-83
add_order(order_type, table_number, customer_name, customer_phone, items, pickup_time, fail) ==
    IF fail
    THEN /\ UNCHANGED <<store, nextKey>>
         /\ last' = Submitted("add_order", NoId, FALSE, "Error adding order",
                             order_type, table_number, customer_name, items)
    ELSE /\ store' = Push(store, nextKey,
                new_order(order_type, table_number, customer_name, customer_phone, items, pickup_time))
         /\ nextKey' = nextKey + 1
         /\ last' = Submitted("add_order", nextKey, TRUE, "",
                             order_type, table_number, customer_name, items)

\* mark_order_done(order_id), lines 85-96
mark_order_done(order_id, fail) ==
    IF fail
    THEN /\ UNCHANGED store
         /\ last' = Outcome("mark_order_done", order_id, FALSE, "Error updating order")
    ELSE /\ store' = Update(store, order_id, [status |-> "Done", completed_at |-> Strftime(now)])
         /\ last' = Outcome("mark_order_done", order_id, TRUE, "")

\* mark_order_ready(order_id), lines 98-109
mark_order_ready(order_id, fail) ==
    IF fail
    THEN /\ UNCHANGED store
         /\ last' = Outcome("mark_order_ready", order_id, FALSE, "Error updating order")
    ELSE /\ store' = Update(store, order_id, [status |-> "Ready", completed_at |-> Strftime(now)])
         /\ last' = Outcome("mark_order_ready", order_id, TRUE, "")

\* mark_order_picked_up(order_id), lines 111-122
mark_order_picked_up(order_id, fail) ==
    IF fail
    THEN /\ UNCHANGED store
         /\ last' = Outcome("mark_order_picked_up", order_id, FALSE, "Error updating order")
    ELSE /\ store' = Update(store, order_id, [status |-> "Picked-Up", picked_up_at |-> Strftime(now)])
         /\ last' = Outcome("mark_order_picked_up", order_id, TRUE, "")

\* delete_order(order_id), lines 124-132
delete_order(order_id, fail) ==
    IF fail
    THEN /\ UNCHANGED store
         /\ last' = Outcome("delete_order", order_id, FALSE, "Error deleting order")
    ELSE /\ store' = Delete(store, order_id)
         /\ last' = Outcome("delete_order", order_id, TRUE, "")

\* ------------------------------------------------------------ widget inputs
ItemsInputs == {<<SP>>, <<"k", SP>>}                \* st.text_area, lines 174, 225
TableInputs == {MinTable, MaxTable}                \* st.number_input, line 173
NameInputs == {<<SP>>, <<"a">>}                    \* st.text_input, line 215
PhoneInputs == {<<"5">>}                           \* st.text_input, line 216
PickupInputs == {{}}                               \* st.time_input(value=None), line 221: left unset

ASAP == <<"A", "S", "A", "P">>
Digit(n) == <<"0", "1", "2", "3", "4", "5", "6", "7", "8", "9">>[n + 1]

\* pickup_time.strftime("%H:%M")
StrftimeHM(m) == <<Digit((m \div 60) \div 10), Digit((m \div 60) % 10), ":",
                   Digit((m % 60) \div 10), Digit((m % 60) % 10)>>

\* line 233
pickup_str(asap, pickup_time) ==
    IF asap THEN ASAP
    ELSE IF pickup_time # {} THEN StrftimeHM(CHOOSE m \in pickup_time : TRUE)
    ELSE ASAP

\* ------------------------------------------------- Kitchen Dashboard views
IsDineIn(v) == Get(v, "type", None) = "Dine-In"
IsTakeOut(v) == Get(v, "type", None) = "Take-Out"
IsPending(v) == v["status"] = "Pending"
IsReady(v) == v["status"] = "Ready"
IsDone(v) == v["status"] = "Done"
IsPickedUp(v) == v["status"] = "Picked-Up"

\* the keys of the items of d with the given status: v['status'] == status
WithStatus(d, status) == {k \in DOMAIN d : d[k]["status"] = status}

dine_in_orders(o) == Filter(o, {k \in DOMAIN o : IsDineIn(o[k])})               \* line 272
takeout_orders(o) == Filter(o, {k \in DOMAIN o : IsTakeOut(o[k])})              \* line 273
pending_dine_in(o) == Filter(dine_in_orders(o), WithStatus(dine_in_orders(o), "Pending"))   \* line 276
pending_takeout(o) == Filter(takeout_orders(o), WithStatus(takeout_orders(o), "Pending"))   \* line 277
ready_takeout(o) == Filter(takeout_orders(o), WithStatus(takeout_orders(o), "Ready"))       \* line 278
completed_dine_in(o) == Filter(dine_in_orders(o), WithStatus(dine_in_orders(o), "Done"))    \* line 336
picked_up(o) == Filter(takeout_orders(o), WithStatus(takeout_orders(o), "Picked-Up"))       \* line 411

total_pending(o) ==                                              \* line 294
    Cardinality(DOMAIN pending_dine_in(o)) + Cardinality(DOMAIN pending_takeout(o))

\* the creation timestamp as the key of the completed list
CreatedKey(v) == v["timestamp"]

CompletedKey(v) == Get(v, "completed_at", v["timestamp"])
PickedKey(v) == Get(v, "picked_up_at", v["timestamp"])
TimestampKey(v) == v["timestamp"]

sorted_completed(o) ==                                                    \* lines 339-341
    Sorted([k \in DOMAIN completed_dine_in(o) |-> CompletedKey(o[k])], TRUE)
sorted_picked(o) ==                                                       \* lines 414-416
    Sorted([k \in DOMAIN picked_up(o) |-> PickedKey(o[k])], TRUE)
sorted_all(o) ==                                                          \* line 432
    Sorted([k \in DOMAIN o |-> TimestampKey(o[k])], TRUE)

\* line 432 raises KeyError when a record has no 'timestamp'
AllOrdersTabRenders(o) == \A k \in DOMAIN o : "timestamp" \in DOMAIN o[k]

\* ------------------------------------------------------------------- Init
Init ==
    /\ store = EmptyDict
    /\ nextKey = 1
    /\ now = 0
    /\ phase = [s \in Sessions |-> "idle"]
    /\ orders = [s \in Sessions |-> EmptyDict]
    /\ session_state = [s \in Sessions |-> EmptyDict]
    /\ last = Outcome("init", NoId, TRUE, "")

\* the clock advances
Tick ==
    /\ now < MaxTime
    /\ now' = now + 1
    /\ last' = Outcome("tick", NoId, TRUE, "")
    /\ UNCHANGED <<store, nextKey, phase, orders, session_state>>

\* ------------------------------------------------- order terminals (views)
\* Dine-In view, "Send to Kitchen", lines 180-188
DineInSubmit ==
    \E table_number \in TableInputs, items \in ItemsInputs, fail \in BOOLEAN :
        /\ nextKey <= MaxOrders
        /\ IF Strip(items) # <<>>
           THEN add_order("Dine-In", table_number, None, None, items, None, fail)
           ELSE /\ last' = Submitted("dine_in_submit", NoId, FALSE, "Please enter order items!",
                                     "Dine-In", table_number, None, items)
                /\ UNCHANGED <<store, nextKey>>
        /\ UNCHANGED <<now, phase, orders, session_state>>

\* Take-Out view, "Send to Kitchen", lines 231-240
TakeOutSubmit ==
    \E customer_name \in NameInputs, customer_phone \in PhoneInputs, asap \in BOOLEAN,
       pickup_time \in PickupInputs, items \in ItemsInputs, fail \in BOOLEAN :
        /\ nextKey <= MaxOrders
        /\ IF Strip(items) # <<>> /\ Strip(customer_name) # <<>>
           THEN add_order("Take-Out", None, customer_name, customer_phone, items,
                          pickup_str(asap, pickup_time), fail)
           ELSE /\ last' = Submitted("take_out_submit", NoId, FALSE,
                                     "Please enter customer name and order items!",
                                     "Take-Out", None, customer_name, items)
                /\ UNCHANGED <<store, nextKey>>
        /\ UNCHANGED <<now, phase, orders, session_state>>

\* ------------------------------------------------------ Kitchen Dashboard
\* a script run of the Kitchen Dashboard down to line 299
KitchenRun(s) ==
    \E fail \in BOOLEAN :
        LET o == get_orders(fail)
            first == "previous_order_count" \notin DOMAIN session_state[s]
            sound == ~first /\ total_pending(o) > session_state[s]["previous_order_count"]
        IN /\ orders' = [orders EXCEPT ![s] = o]
           /\ phase' = [phase EXCEPT ![s] = "run"]
           /\ session_state' = [session_state EXCEPT ![s] =
                 IF first \/ sound
                 THEN Merge(@, [previous_order_count |-> total_pending(o)])
                 ELSE @]
           /\ last' = [op |-> "kitchen_run", id |-> s, ret |-> ~fail,
                       error |-> IF fail THEN "Error fetching orders" ELSE "",
                       sound |-> sound]
           /\ UNCHANGED <<store, nextKey, now>>

\* the script run ends (st.rerun() or the end of the script)
EndRun(s) ==
    /\ phase' = [phase EXCEPT ![s] = "idle"]
    /\ orders' = [orders EXCEPT ![s] = EmptyDict]

\* st.session_state.previous_order_count -= 1
Decrement(s) ==
    session_state' = [session_state EXCEPT ![s] =
        Merge(@, [previous_order_count |-> @["previous_order_count"] - 1])]

\* the helper of the given name
Helper(name, order_id, fail) ==
    CASE name = "mark_order_done" -> mark_order_done(order_id, fail)
      [] name = "mark_order_ready" -> mark_order_ready(order_id, fail)
      [] name = "mark_order_picked_up" -> mark_order_picked_up(order_id, fail)
      [] name = "delete_order" -> delete_order(order_id, fail)

\* a button of the run's page is pressed: `call` names the helper it invokes,
\* `counted` tells whether the handler decrements previous_order_count
Press(s, shown, call, counted) ==
    \E order_id \in shown, fail \in BOOLEAN :
        /\ phase[s] = "run"
        /\ Helper(call, order_id, fail)
        /\ IF counted /\ ~fail THEN Decrement(s) ELSE UNCHANGED session_state
        /\ EndRun(s)
        /\ UNCHANGED <<nextKey, now>>

\* "Done" of a pending dine-in order, lines 321-326
PressDone(s) == Press(s, DOMAIN pending_dine_in(orders[s]), "mark_order_done", TRUE)

\* delete of a pending dine-in order, lines 328-331
PressDeletePendingDineIn(s) == Press(s, DOMAIN pending_dine_in(orders[s]), "delete_order", TRUE)

\* delete of a completed dine-in order, lines 343-348
PressDeleteCompleted(s) ==
    Press(s, Take(sorted_completed(orders[s]), CompletedWindow), "delete_order", FALSE)

\* "Ready" of a pending take-out order, lines 369-373
PressReady(s) == Press(s, DOMAIN pending_takeout(orders[s]), "mark_order_ready", FALSE)

\* delete of a pending take-out order, lines 375-378
PressDeletePendingTakeOut(s) == Press(s, DOMAIN pending_takeout(orders[s]), "delete_order", TRUE)

\* "Picked Up" of a ready take-out order, lines 398-402
PressPickedUp(s) == Press(s, DOMAIN ready_takeout(orders[s]), "mark_order_picked_up", FALSE)

\* delete of a ready take-out order, lines 404-406
PressDeleteReady(s) == Press(s, DOMAIN ready_takeout(orders[s]), "delete_order", FALSE)

\* delete of a picked-up take-out order, lines 418-423
PressDeletePicked(s) ==
    Press(s, Take(sorted_picked(orders[s]), CompletedWindow), "delete_order", FALSE)

\* delete on the All Orders tab, lines 428-454
PressDeleteAll(s) ==
    /\ AllOrdersTabRenders(orders[s])
    /\ Press(s, Take(sorted_all(orders[s]), AllOrdersWindow), "delete_order", FALSE)

Next ==
    \/ Tick
    \/ DineInSubmit
    \/ TakeOutSubmit
    \/ \E s \in Sessions : KitchenRun(s)
    \/ \E s \in Sessions : PressDone(s)
    \/ \E s \in Sessions : PressDeletePendingDineIn(s)
    \/ \E s \in Sessions : PressDeleteCompleted(s)
    \/ \E s \in Sessions : PressReady(s)
    \/ \E s \in Sessions : PressDeletePendingTakeOut(s)
    \/ \E s \in Sessions : PressPickedUp(s)
    \/ \E s \in Sessions : PressDeleteReady(s)
    \/ \E s \in Sessions : PressDeletePicked(s)
    \/ \E s \in Sessions : PressDeleteAll(s)

Spec == Init /\ [][Next]_vars

\* ------------------------------------------ the app with a single dashboard
Kitchen == 1

NextSolo ==
    \/ Tick
    \/ DineInSubmit
    \/ TakeOutSubmit
    \/ KitchenRun(Kitchen)
    \/ PressDone(Kitchen)
    \/ PressDeletePendingDineIn(Kitchen)
    \/ PressDeleteCompleted(Kitchen)
    \/ PressReady(Kitchen)
    \/ PressDeletePendingTakeOut(Kitchen)
    \/ PressPickedUp(Kitchen)
    \/ PressDeleteReady(Kitchen)
    \/ PressDeletePicked(Kitchen)
    \/ PressDeleteAll(Kitchen)

SpecSolo == Init /\ [][NextSolo]_vars

\* ---------------------------------------------- the helpers on any order id
\* The helpers take an order id and look at nothing else: here each is
\* called with any push key, whatever a dashboard shows.
Call(call) ==
    \E order_id \in Ids, fail \in BOOLEAN :
        /\ Helper(call, order_id, fail)
        /\ UNCHANGED <<nextKey, now, phase, orders, session_state>>

CallDone == Call("mark_order_done")
CallReady == Call("mark_order_ready")
CallPickedUp == Call("mark_order_picked_up")
CallDelete == Call("delete_order")

NextCore ==
    \/ Tick
    \/ DineInSubmit
    \/ TakeOutSubmit
    \/ CallDone
    \/ CallReady
    \/ CallPickedUp
    \/ CallDelete

SpecCore == Init /\ [][NextCore]_vars

\* ------------------------------------------------------ stored collections
\* The pages below only read the store.  They are run on collections that the
\* handlers above leave behind: records created by add_order in key order at
\* non-decreasing instants, each followed by the updates of its status changes.

\* instants in seconds: day 0 09:00:00, day 0 14:00:00 and day 2 09:00:00
Instants == <<9 * SecondsPerHour, 14 * SecondsPerHour, 2 * SecondsPerDay + 9 * SecondsPerHour>>

\* the instant after the i-th (the last one is its own successor)
Later(i) == Instants[IF i < Len(Instants) THEN i + 1 ELSE i]

\* the records add_order stores at instant t, lines 68-78
StoredDineIn(t) ==
    [type |-> "Dine-In", table |-> MinTable, items |-> <<"k">>,
     status |-> "Pending", timestamp |-> t]
StoredTakeOut(t) ==
    [type |-> "Take-Out", customer_name |-> <<"a">>, customer_phone |-> <<"5">>,
     pickup_time |-> ASAP, items |-> <<"k">>, status |-> "Pending", timestamp |-> t]

\* the fields the mark_* helpers write at instant t, lines 89-92, 102-105, 115-118
DoneFields(t) == [status |-> "Done", completed_at |-> t]
ReadyFields(t) == [status |-> "Ready", completed_at |-> t]
PickedUpFields(t) == [status |-> "Picked-Up", picked_up_at |-> t]

\* a record of the given history, created at the i-th instant; "re-created"
\* is the record a Done press leaves under a deleted key
Drawn(shape, i) ==
    LET t == Instants[i] IN
    CASE shape = "dine-in pending" -> StoredDineIn(t)
      [] shape = "dine-in done" -> Merge(StoredDineIn(t), DoneFields(t))
      [] shape = "dine-in done later" -> Merge(StoredDineIn(t), DoneFields(Later(i)))
      [] shape = "take-out pending" -> StoredTakeOut(t)
      [] shape = "take-out ready" -> Merge(StoredTakeOut(t), ReadyFields(t))
      [] shape = "take-out picked up" ->
            Merge(Merge(StoredTakeOut(t), ReadyFields(t)), PickedUpFields(t))
      [] shape = "take-out picked up later" ->
            Merge(Merge(StoredTakeOut(t), ReadyFields(t)), PickedUpFields(Later(i)))
      [] shape = "re-created" -> DoneFields(t)

\* push keys are chronological: the creation instants do not decrease with the key
Chronological(n) ==
    {g \in [1..n -> DOMAIN Instants] : \A k \in 1..n : k < n => g[k] <= g[k + 1]}

\* the collections of n records of the given shapes
Collections(shapes, n) ==
    {[k \in 1..n |-> Drawn(f[k], g[k])] : f \in [1..n -> shapes], g \in Chronological(n)}

\* the variables around a collection that is read and not written
Quiescent ==
    /\ nextKey = Cardinality(DOMAIN store) + 1
    /\ now = Instants[Len(Instants)] * TicksPerSecond
    /\ phase = [s \in Sessions |-> "idle"]
    /\ orders = [s \in Sessions |-> EmptyDict]
    /\ session_state = [s \in Sessions |-> EmptyDict]
    /\ last = Outcome("init", NoId, TRUE, "")

\* ------------------------------------------- recent orders of the terminals
\* the outcome of rendering a list of orders
Listed(op, ret, rows) ==
    [op |-> op, id |-> NoId, ret |-> ret,
     error |-> IF ret THEN "" ELSE "Error fetching orders", rows |-> rows]

\* sorted(d.items(), key=lambda x: x[1]['timestamp'], reverse=True)[:5], lines 197, 249
recent_orders(d) ==
    Prefix(Sorted([k \in DOMAIN d |-> TimestampKey(d[k])], TRUE), RecentWindow)

\* Dine-In view, "Recent Dine-In Orders", lines 190-204
DineInRecent ==
    \E fail \in BOOLEAN :
        /\ last' = Listed("dine_in_recent", ~fail, recent_orders(dine_in_orders(get_orders(fail))))
        /\ UNCHANGED <<store, nextKey, now, phase, orders, session_state>>

\* Take-Out view, "Recent Take-Out Orders", lines 242-259
TakeOutRecent ==
    \E fail \in BOOLEAN :
        /\ last' = Listed("take_out_recent", ~fail, recent_orders(takeout_orders(get_orders(fail))))
        /\ UNCHANGED <<store, nextKey, now, phase, orders, session_state>>

RecentShapes == {"dine-in pending", "take-out pending"}

InitRecent ==
    /\ store \in UNION {Collections(RecentShapes, n) : n \in 0..(RecentWindow + MaxOverflow)}
    /\ Quiescent

NextRecent ==
    \/ DineInRecent
    \/ TakeOutRecent

SpecRecent == InitRecent /\ [][NextRecent]_vars

\* ------------------------------------------- tabs of the Kitchen Dashboard
sorted_pending_dine_in(o) ==                                              \* line 310
    Sorted([k \in DOMAIN pending_dine_in(o) |-> TimestampKey(o[k])], FALSE)
sorted_pending_takeout(o) ==                                              \* line 356
    Sorted([k \in DOMAIN pending_takeout(o) |-> TimestampKey(o[k])], FALSE)
sorted_ready(o) ==                                                        \* line 385
    Sorted([k \in DOMAIN ready_takeout(o) |-> CompletedKey(o[k])], FALSE)

\* the run renders its tabs, lines 300-454, and no button is pressed; the
\* All Orders tab comes last and stops the script when line 432 raises
KitchenTabs(s) ==
    LET o == orders[s] IN
    /\ phase[s] = "run"
    /\ last' = [op |-> "kitchen_tabs", id |-> s, ret |-> AllOrdersTabRenders(o),
                error |-> IF AllOrdersTabRenders(o) THEN "" ELSE "KeyError: 'timestamp'",
                pending_dine_in |-> sorted_pending_dine_in(o),
                completed |-> Prefix(sorted_completed(o), CompletedWindow),
                pending_takeout |-> sorted_pending_takeout(o),
                ready |-> sorted_ready(o),
                picked |-> Prefix(sorted_picked(o), CompletedWindow),
                all |-> IF AllOrdersTabRenders(o)
                        THEN Prefix(sorted_all(o), AllOrdersWindow) ELSE <<>>]
    /\ UNCHANGED <<store, nextKey, now, phase, orders, session_state>>

MixedShapes ==
    {"dine-in pending", "dine-in done", "take-out pending", "take-out ready",
     "take-out picked up", "re-created"}
DoneShapes == {"dine-in done", "dine-in done later"}
PickedUpShapes == {"take-out picked up", "take-out picked up later"}

\* mixed collections, and collections that overflow a history list
InitKitchen ==
    /\ store \in
        UNION ({Collections(MixedShapes, n) : n \in 0..MaxRows}
               \cup {Collections(DoneShapes, CompletedWindow + n) : n \in 1..MaxOverflow}
               \cup {Collections(PickedUpShapes, CompletedWindow + n) : n \in 1..MaxOverflow})
    /\ Quiescent

NextKitchen ==
    \/ KitchenRun(Kitchen)
    \/ KitchenTabs(Kitchen)

SpecKitchen == InitKitchen /\ [][NextKitchen]_vars

\* ---------------------------------------------------------- Analytics view
\* datetime.strptime(o['timestamp'], "%Y-%m-%d %H:%M:%S").date(), as a day number
date(t) == t \div SecondsPerDay

\* f"{x:.1f}" of x = n / d, in tenths: the nearest tenth, a tie to the even one
Tenths(n, d) ==
    LET q == (10 * n) \div d
        r == (10 * n) % d
    IN IF 2 * r > d \/ (2 * r = d /\ q % 2 = 1) THEN q + 1 ELSE q

\* line 481 raises KeyError when a record has no 'timestamp'
AnalyticsRenders(o) == \A k \in DOMAIN o : "timestamp" \in DOMAIN o[k]

all_dates(o) == {date(o[k]["timestamp"]) : k \in DOMAIN o}                 \* line 481
min_date(o) == CHOOSE d \in all_dates(o) : \A e \in all_dates(o) : d <= e  \* line 482
max_date(o) == CHOOSE d \in all_dates(o) : \A e \in all_dates(o) : d >= e  \* line 483

\* st.sidebar.date_input, lines 485-490: a range within min_date..max_date, or
\* its first date alone while the range is being picked
DateRanges(o) ==
    LET dates == min_date(o)..max_date(o) IN
    {r \in {<<a, b>> : a \in dates, b \in dates} : r[1] <= r[2]} \cup {<<a>> : a \in dates}

\* the selectboxes of the Detailed Report tab, lines 688-691
TypeFilters == {"All", "Dine-In", "Take-Out"}
StatusFilters == {"All", "Pending", "Done", "Ready", "Picked-Up"}

\* the widget values of a run: the date range or the two filters are changed
\* from their defaults
AnalyticsInputs(o) ==
    {[date_range |-> r, type |-> "All", status |-> "All"] : r \in DateRanges(o)}
    \cup {[date_range |-> <<min_date(o), max_date(o)>>, type |-> t, status |-> f] :
            t \in TypeFilters, f \in StatusFilters}

\* lines 493-500
filtered_orders(o, date_range) ==
    IF Len(date_range) = 2
    THEN Filter(o, {k \in DOMAIN o : /\ date_range[1] <= date(o[k]["timestamp"])
                                     /\ date(o[k]["timestamp"]) <= date_range[2]})
    ELSE o

total_orders(f) == Cardinality(DOMAIN f)                                  \* line 507
dine_in_count(f) == Cardinality(DOMAIN dine_in_orders(f))                 \* line 508
takeout_count(f) == Cardinality(DOMAIN takeout_orders(f))                 \* line 509

\* the count of line 510 with Ready taken for completed
completed_or_ready(f) ==
    Cardinality({k \in DOMAIN f : f[k]["status"] \in {"Done", "Picked-Up", "Ready"}})

completed_orders(f) ==                                                    \* line 510
    Cardinality({k \in DOMAIN f : f[k]["status"] \in {"Done", "Picked-Up"}})

\* lines 519-520, as displayed, in tenths of a percent
completion_rate(f) ==
    IF total_orders(f) > 0 THEN Tenths(completed_orders(f) * 100, total_orders(f)) ELSE 0

\* lines 694-700 with the status filter left out
display_any_status(f, order_type_filter, status_filter) ==
    {k \in DOMAIN f : order_type_filter # "All" => Get(f[k], "type", None) = order_type_filter}

\* lines 694-700: the keys of display_orders
display_orders(f, order_type_filter, status_filter) ==
    {k \in DOMAIN f :
        /\ order_type_filter # "All" => Get(f[k], "type", None) = order_type_filter
        /\ status_filter # "All" => f[k]["status"] = status_filter}

\* line 706: sorted(display_orders, key=lambda x: x['timestamp'], reverse=True)
sorted_display(f, order_type_filter, status_filter) ==
    Sorted([k \in display_orders(f, order_type_filter, status_filter) |-> TimestampKey(f[k])], TRUE)

\* ---- Daily Trends tab, lines 532-554
\* daily_stats: date -> counts by type and total
daily_stats(f) ==
    [d \in all_dates(f) |->
        LET day == Filter(f, {k \in DOMAIN f : date(f[k]["timestamp"]) = d})
        IN [dine_in |-> Cardinality(DOMAIN dine_in_orders(day)),
            takeout |-> Cardinality(DOMAIN takeout_orders(day)),
            total |-> Cardinality(DOMAIN day)]]

\* the dates latest first
dates_descending(f) == Sorted([d \in all_dates(f) |-> d], TRUE)

\* dates = sorted(daily_stats.keys()), line 543
dates(f) == Sorted([d \in all_dates(f) |-> d], FALSE)

\* chart_data, lines 550-554: a row per date
daily_chart(f) ==
    LET ds == dates(f)
        stats == daily_stats(f)
    IN [i \in DOMAIN ds |->
            [date |-> ds[i], dine_in |-> stats[ds[i]].dine_in,
             takeout |-> stats[ds[i]].takeout, total |-> stats[ds[i]].total]]

\* ---- Hourly Distribution tab, lines 573-601
\* the hour counted from the first day on, the date kept
hour_since_first_day(t) == t \div SecondsPerHour

\* datetime.strptime(order['timestamp'], "%Y-%m-%d %H:%M:%S").hour
hour(t) == (t % SecondsPerDay) \div SecondsPerHour

\* hourly_stats[hour] += 1 over the orders: the value under hour h, line 580
hour_count(f, h) == Cardinality({k \in DOMAIN f : hour(f[k]["timestamp"]) = h})

\* hourly_stats: hour -> number of orders, lines 576-580
hourly_stats(f) == [h \in {hour(f[k]["timestamp"]) : k \in DOMAIN f} |-> hour_count(f, h)]

\* counts = [hourly_stats.get(h, 0) for h in hours], lines 586-587
counts(f) ==
    LET stats == hourly_stats(f)
    IN [h \in 0..(HoursPerDay - 1) |-> IF h \in DOMAIN stats THEN stats[h] ELSE 0]

\* hourly_stats.items() iterates in insertion order: an hour is entered by the
\* first order of that hour; the key of that order stands for the hour
first_of_hour(f) ==
    {k \in DOMAIN f :
        \A j \in DOMAIN f : hour(f[j]["timestamp"]) = hour(f[k]["timestamp"]) => k <= j}

\* sorted(hourly_stats.items(), key=lambda x: x[1], reverse=True), line 597
sorted_hours(f) ==
    LET by == Sorted([k \in first_of_hour(f) |-> hour_count(f, hour(f[k]["timestamp"]))], TRUE)
    IN [i \in DOMAIN by |-> hour(f[by[i]]["timestamp"])]

\* ---- Order Types tab, Take-Out Analysis, lines 642-679
\* line 662 with every take-out order taken for an ASAP order
asap_all(t) == Cardinality(DOMAIN t)

\* asap_orders, line 662
asap_orders(t) == Cardinality({k \in DOMAIN t : Get(t[k], "pickup_time", None) = ASAP})

\* scheduled_orders, line 663
scheduled_orders(t) == Cardinality(DOMAIN t) - asap_orders(t)

\* the orders counted at lines 672-674: order.get('customer_name') is not empty
named(t) == {k \in DOMAIN t : Get(t[k], "customer_name", <<>>) # <<>>}

\* customer_orders[name] += 1 over the orders: the value under name c, line 674
customer_count(t, c) == Cardinality({k \in named(t) : t[k]["customer_name"] = c})

\* customer_orders: name -> number of orders, lines 672-674
customer_orders(t) == [c \in {t[k]["customer_name"] : k \in named(t)} |-> customer_count(t, c)]

\* customer_orders.items() iterates in insertion order: the key of a
\* customer's first order stands for the customer
first_of_customer(t) ==
    {k \in named(t) : \A j \in named(t) : t[j]["customer_name"] = t[k]["customer_name"] => k <= j}

\* sorted(customer_orders.items(), key=lambda x: x[1], reverse=True), line 675
sorted_customers(t) ==
    LET by == Sorted([k \in first_of_customer(t) |-> customer_count(t, t[k]["customer_name"])], TRUE)
    IN [i \in DOMAIN by |-> t[by[i]]["customer_name"]]

\* the page of a run that gets past line 500: the overview, the tabs and the
\* summary statistics; a tab without data shows a message instead; lines 792-794 take min() and max()
\* of the dates of filtered_orders and raise ValueError when there is none
Report(o, input) ==
    LET f == filtered_orders(o, input.date_range)
        days == all_dates(f)
    IN [op |-> "analytics", id |-> NoId, ret |-> f # EmptyDict,
        error |-> IF f # EmptyDict THEN "" ELSE "ValueError: min() arg is an empty sequence",
        page |-> "report",
        date_range |-> input.date_range, type |-> input.type, status |-> input.status,
        filtered |-> DOMAIN f,
        total_orders |-> total_orders(f),
        dine_in_count |-> dine_in_count(f),
        takeout_count |-> takeout_count(f),
        completed_orders |-> completed_orders(f),
        completion_rate |-> completion_rate(f),
        showing |-> Cardinality(display_orders(f, input.type, input.status)),
        rows |-> sorted_display(f, input.type, input.status),
        daily |-> daily_chart(f),
        hourly |-> IF DOMAIN f # {} THEN counts(f) ELSE EmptyDict,
        peak_hours |-> Prefix(sorted_hours(f), PeakWindow),
        pickup |-> IF takeout_orders(f) # EmptyDict
                   THEN <<asap_orders(takeout_orders(f)), scheduled_orders(takeout_orders(f))>>
                   ELSE <<>>,
        top_customers |-> Prefix(sorted_customers(takeout_orders(f)), CustomerWindow),
        summary_dates |-> IF f # EmptyDict THEN <<min_date(f), max_date(f), Cardinality(days)>>
                          ELSE <<>>]

\* the browser session on the Analytics view
Analyst == 1

\* the widget values a session on the Analytics view can hold: none before
\* the widgets are first drawn (the script stops at line 469 or at line 481)
Widgets(o) ==
    IF o = EmptyDict \/ ~AnalyticsRenders(o) THEN {EmptyDict} ELSE AnalyticsInputs(o)

\* a script run of the Analytics view, lines 462-794, with the widgets as the
\* session holds them
AnalyticsRun ==
    \E fail \in BOOLEAN :
        LET o == get_orders(fail) IN
        /\ IF o = EmptyDict
           THEN last' = [op |-> "analytics", id |-> NoId, ret |-> ~fail,
                         error |-> IF fail THEN "Error fetching orders" ELSE "",
                         page |-> "No orders data available yet."]
           ELSE IF ~AnalyticsRenders(o)
           THEN last' = [op |-> "analytics", id |-> NoId, ret |-> FALSE,
                         error |-> "KeyError: 'timestamp'", page |-> "exception"]
           ELSE last' = Report(o, session_state[Analyst])
        /\ UNCHANGED <<store, nextKey, now, phase, orders, session_state>>

AnalyticsShapes ==
    {"dine-in pending", "dine-in done", "take-out ready", "take-out picked up", "re-created"}

\* a stored collection and a session whose widgets hold one of their values
Viewing(collections) ==
    /\ store \in collections
    /\ nextKey = Cardinality(DOMAIN store) + 1
    /\ now = Instants[Len(Instants)] * TicksPerSecond
    /\ phase = [s \in Sessions |-> "idle"]
    /\ orders = [s \in Sessions |-> EmptyDict]
    /\ session_state \in
            {[s \in Sessions |-> IF s = Analyst THEN w ELSE EmptyDict] : w \in Widgets(store)}
    /\ last = Outcome("init", NoId, TRUE, "")

InitAnalytics == Viewing(UNION {Collections(AnalyticsShapes, n) : n \in 0..MaxRows})

NextAnalytics == AnalyticsRun

SpecAnalytics == InitAnalytics /\ [][NextAnalytics]_vars

\* ---- the analytics page over take-out orders of several customers ----

\* the name the i-th customer types into the order form, line 218
Customer(i) == <<"c", Digit(i)>>

\* who placed the n orders: the k-th order comes from one of the first two
\* customers or from a new one
CustomerRows(n) == {c \in [1..n -> 1..n] : \A k \in 1..n : c[k] \in {1, 2, k} /\ c[k] <= k}

\* the collections of n orders placed in the same hour: take-out orders of
\* the customers c, the first p of them with a pickup time and the others
\* ASAP (line 233), the orders of T placed at a table instead
CustomerCollections(n) ==
    LET t == Instants[1] IN
    {[k \in 1..n |->
        IF k \in T THEN StoredDineIn(t)
        ELSE Merge(StoredTakeOut(t),
                   [customer_name |-> Customer(c[k]),
                    pickup_time |-> IF k <= p THEN StrftimeHM(750) ELSE ASAP])] :
     c \in CustomerRows(n),
     p \in {k \in 0..n : k <= MaxRows},
     T \in SUBSET {k \in 1..n : k = 1}}

InitTakeOut == Viewing(UNION {CustomerCollections(n) : n \in 0..(CustomerWindow + MaxOverflow)})

SpecTakeOut == InitTakeOut /\ [][NextAnalytics]_vars

\* ================================================================= claims
\* vocabulary of the claims
MarkOps == {"mark_order_done", "mark_order_ready", "mark_order_picked_up"}
SubmitOps == {"dine_in_submit", "take_out_submit", "add_order"}

TargetOf(op) ==
    CASE op = "mark_order_done" -> "Done"
      [] op = "mark_order_ready" -> "Ready"
      [] op = "mark_order_picked_up" -> "Picked-Up"

\* the step is a status change request for order id
Requests(id) == last'.op \in MarkOps /\ last'.id = id

Has(v, k) == k \in DOMAIN v
IsBlank(text) == \A i \in DOMAIN text : text[i] = SP
Terminal(v) == (IsDineIn(v) /\ IsDone(v)) \/ (IsTakeOut(v) /\ IsPickedUp(v))

\* C1: a Pending Dine-In order accepts Done, which sets completed_at; a request
\* for Ready or Picked-Up fails and leaves the stored record unchanged.
C1_DineInPendingOnlyDone ==
    [][\A id \in DOMAIN store :
        (IsDineIn(store[id]) /\ IsPending(store[id]) /\ Requests(id)) =>
            IF last'.op = "mark_order_done"
            THEN last'.ret => /\ id \in DOMAIN store'
                              /\ IsDone(store'[id])
                              /\ Has(store'[id], "completed_at")
            ELSE ~last'.ret /\ store' = store]_vars

\* C2: a Take-Out order accepts only Ready while Pending and only Picked-Up
\* while Ready (a repeat of the status it holds aside); any other request
\* fails and leaves the record unchanged.
C2_TakeOutLinear ==
    [][\A id \in DOMAIN store :
        (/\ IsTakeOut(store[id]) /\ Requests(id)
         /\ TargetOf(last'.op) # store[id]["status"]
         /\ <<store[id]["status"], TargetOf(last'.op)>> \notin
                {<<"Pending", "Ready">>, <<"Ready", "Picked-Up">>}) =>
            ~last'.ret /\ store' = store]_vars

\* C3: an order in its terminal status (Done for Dine-In, Picked-Up for
\* Take-Out) keeps that status for as long as it is stored.
C3_TerminalIsFinal ==
    [][\A id \in DOMAIN store \cap DOMAIN store' :
        Terminal(store[id]) => store'[id]["status"] = store[id]["status"]]_vars

\* C4: a request for the status the order already holds that returns success
\* changes nothing: completed_at and picked_up_at keep their values.
C4_RepeatIsNoOp ==
    [][\A id \in DOMAIN store :
        (Requests(id) /\ TargetOf(last'.op) = store[id]["status"] /\ last'.ret) =>
            store' = store]_vars

\* C5: created_at <= completed_at whenever completed_at exists, and
\* completed_at <= picked_up_at whenever both exist.
C5_TimestampsOrdered ==
    \A id \in DOMAIN store :
        LET v == store[id] IN
        /\ (Has(v, "timestamp") /\ Has(v, "completed_at")) => v["timestamp"] <= v["completed_at"]
        /\ (Has(v, "completed_at") /\ Has(v, "picked_up_at")) => v["completed_at"] <= v["picked_up_at"]

\* C6: a status change request for an id that is not in the store fails and
\* leaves the store unchanged; no record appears under that id.
C6_AbsentIdNotFound ==
    [][(last'.op \in MarkOps /\ last'.id \notin DOMAIN store) =>
            ~last'.ret /\ store' = store]_vars

\* C7: deleting an id that is not in the store never reports success.
C7_DeleteAbsentFails ==
    [][(last'.op = "delete_order" /\ last'.id \notin DOMAIN store) => ~last'.ret]_vars

\* C8: every stored order is of a type and its status belongs to that type:
\* Pending or Done for Dine-In; Pending, Ready or Picked-Up for Take-Out.
C8_StatusOfType ==
    \A id \in DOMAIN store :
        \/ IsDineIn(store[id]) /\ store[id]["status"] \in {"Pending", "Done"}
        \/ IsTakeOut(store[id]) /\ store[id]["status"] \in {"Pending", "Ready", "Picked-Up"}

\* the fields of a submission are valid
ValidFields(o) ==
    /\ ~IsBlank(o.items)
    /\ o.type = "Take-Out" => ~IsBlank(o.customer_name)
    /\ o.type = "Dine-In" => o.table \in MinTable..MaxTable

\* C9: a valid submission that the store accepts adds exactly one record, under
\* a fresh key: Pending, created in the second of the submission, with neither
\* completed_at nor picked_up_at; every other record is unchanged.
C9_SubmitStoresPending ==
    [][(last'.op \in SubmitOps /\ ValidFields(last')) =>
        /\ last'.op = "add_order"
        /\ last'.ret =>
            /\ last'.id \notin DOMAIN store
            /\ DOMAIN store' = DOMAIN store \cup {last'.id}
            /\ \A k \in DOMAIN store : store'[k] = store[k]
            /\ LET v == store'[last'.id] IN
                /\ v["type"] = last'.type
                /\ v["status"] = "Pending"
                /\ v["timestamp"] * TicksPerSecond <= now
                /\ now < (v["timestamp"] + 1) * TicksPerSecond
                /\ ~Has(v, "completed_at")
                /\ ~Has(v, "picked_up_at")]_vars

\* C9 witness: a second order has just been stored next to an earlier one
C9_Witness ==
    /\ last.op = "add_order" /\ last.ret
    /\ Cardinality(DOMAIN store) = 2
    /\ now > 0

C11_RecordsComplete ==
    \A id \in DOMAIN store :
        /\ Has(store[id], "items") /\ ~IsBlank(store[id]["items"])
        /\ Has(store[id], "type")
        /\ Has(store[id], "status")
        /\ Has(store[id], "timestamp")

\* the field groups of a record
HasTableGroup(v) == Has(v, "table")
HasCustomerGroup(v) == Has(v, "customer_name") /\ Has(v, "pickup_time")
HasNoCustomerField(v) == DOMAIN v \cap {"customer_name", "customer_phone", "pickup_time"} = {}

\* C12: every stored order has exactly one field group, chosen by its type: a
\* Dine-In order has a table and no customer name, phone or pickup time; a
\* Take-Out order has a customer name and a pickup time and no table.
C12_OneFieldGroup ==
    \A id \in DOMAIN store :
        \/ IsDineIn(store[id]) /\ HasTableGroup(store[id]) /\ HasNoCustomerField(store[id])
        \/ IsTakeOut(store[id]) /\ HasCustomerGroup(store[id]) /\ ~HasTableGroup(store[id])

\* the timestamp field that goes with a status change
StampOf(op) == IF op = "mark_order_picked_up" THEN "picked_up_at" ELSE "completed_at"

\* C13: a status change of a stored order writes that order's status and the
\* timestamp that goes with it, and nothing else: its other fields, and every
\* other order, are as before.
C13_StatusChangeFrame ==
    [][(last'.op \in MarkOps /\ last'.ret /\ last'.id \in DOMAIN store) =>
        /\ DOMAIN store' = DOMAIN store
        /\ \A k \in DOMAIN store \ {last'.id} : store'[k] = store[k]
        /\ LET old == store[last'.id]
               new == store'[last'.id]
               written == {"status", StampOf(last'.op)}
           IN /\ DOMAIN new = DOMAIN old \cup written
              /\ \A f \in DOMAIN old \ written : new[f] = old[f]]_vars

\* C13 witness: the status of one of two stored orders has just been changed
C13_Witness ==
    /\ last.op \in MarkOps /\ last.ret
    /\ Cardinality(DOMAIN store) = 2
    /\ last.id \in DOMAIN store
    /\ store[last.id]["status"] = TargetOf(last.op)
    /\ Has(store[last.id], "items")

\* C14: deleting a stored order is refused only when the store fails, whatever
\* the order's status; a deletion that succeeds removes that record and no
\* other, and the other records are as before.
C14_DeleteFrame ==
    [][(last'.op = "delete_order" /\ last'.id \in DOMAIN store) =>
        IF last'.ret
        THEN /\ DOMAIN store' = DOMAIN store \ {last'.id}
             /\ \A k \in DOMAIN store' : store'[k] = store[k]
        ELSE /\ last'.error = "Error deleting order"
             /\ store' = store]_vars

\* C14 witness: the older of two stored orders has just been deleted and the
\* younger one remains
C14_Witness ==
    /\ last.op = "delete_order" /\ last.ret
    /\ last.id \notin DOMAIN store
    /\ \E k \in DOMAIN store : k > last.id

\* C15: a read of the store that fails is not handed to the caller as an
\* order collection: the caller never receives the empty collection from it.
C15_FailedReadNotEmpty ==
    [][(last'.op = "kitchen_run" /\ ~last'.ret) => orders'[last'.id] # EmptyDict]_vars

\* the ids in a list, and the stored orders of a type
Listing(rows) == {rows[i] : i \in DOMAIN rows}
OfType(type) == {k \in DOMAIN store : Has(store[k], "type") /\ store[k]["type"] = type}
RecentType(op) == IF op = "dine_in_recent" THEN "Dine-In" ELSE "Take-Out"

\* C18: the recent list of a type holds min(window, count) orders of that
\* type, none twice, newest first by creation timestamp, orders of the same
\* timestamp in key order; no order left out is newer than a listed one.
C18_RecentNewestFirst ==
    (last.op \in {"dine_in_recent", "take_out_recent"} /\ last.ret) =>
        LET rows == last.rows
            all == OfType(RecentType(last.op))
        IN /\ Len(rows) = IF Cardinality(all) < RecentWindow THEN Cardinality(all) ELSE RecentWindow
           /\ Listing(rows) \subseteq all
           /\ \A i, j \in DOMAIN rows : i < j =>
                \/ store[rows[i]]["timestamp"] > store[rows[j]]["timestamp"]
                \/ /\ store[rows[i]]["timestamp"] = store[rows[j]]["timestamp"]
                   /\ rows[i] < rows[j]
           /\ \A k \in all \ Listing(rows) : \A i \in DOMAIN rows :
                store[k]["timestamp"] <= store[rows[i]]["timestamp"]

\* C18 witness: a recent list is full, leaves an order of its type out, and
\* lists two orders of the same second as well as two of different seconds
C18_Witness ==
    /\ last.op = "dine_in_recent" /\ last.ret
    /\ Len(last.rows) = RecentWindow
    /\ OfType("Dine-In") \ Listing(last.rows) # {}
    /\ \E i, j \in DOMAIN last.rows :
        /\ i < j
        /\ store[last.rows[i]]["timestamp"] = store[last.rows[j]]["timestamp"]
    /\ \E i, j \in DOMAIN last.rows :
        store[last.rows[i]]["timestamp"] > store[last.rows[j]]["timestamp"]

\* the orders of a snapshot of the given type and status
Matching(o, type, status) ==
    {k \in DOMAIN o : /\ Has(o[k], "type") /\ o[k]["type"] = type
                      /\ o[k]["status"] = status}

\* rows lists every order of the set once, oldest first
IsQueue(o, rows, all) ==
    /\ Listing(rows) = all
    /\ Len(rows) = Cardinality(all)
    /\ \A i, j \in DOMAIN rows : i < j => o[rows[i]]["timestamp"] <= o[rows[j]]["timestamp"]

\* rows lists the orders of the set with the latest stamps, none twice, latest
\* first, and as many as the window takes
IsHistory(o, rows, all, stamp) ==
    /\ Listing(rows) \subseteq all
    /\ Cardinality(Listing(rows)) = Len(rows)
    /\ Len(rows) = IF Cardinality(all) < CompletedWindow THEN Cardinality(all) ELSE CompletedWindow
    /\ \A i, j \in DOMAIN rows : i < j => o[rows[i]][stamp] >= o[rows[j]][stamp]
    /\ \A k \in all \ Listing(rows) : \A i \in DOMAIN rows : o[k][stamp] <= o[rows[i]][stamp]

\* C17: on the dashboard the pending queue of a type lists every Pending order
\* of that type of the snapshot, oldest first; the completed list shows the
\* Done dine-in orders latest completed_at first and the picked-up list the
\* Picked-Up take-out orders latest picked_up_at first, each at most
\* CompletedWindow long.
C17_QueuesAndHistory ==
    last.op = "kitchen_tabs" =>
        LET o == orders[last.id] IN
        /\ IsQueue(o, last.pending_dine_in, Matching(o, "Dine-In", "Pending"))
        /\ IsQueue(o, last.pending_takeout, Matching(o, "Take-Out", "Pending"))
        /\ IsHistory(o, last.completed, Matching(o, "Dine-In", "Done"), "completed_at")
        /\ IsHistory(o, last.picked, Matching(o, "Take-Out", "Picked-Up"), "picked_up_at")

\* C17 witness: the completed list is full and leaves a Done order out; an
\* order is listed before another of the same creation second that has the
\* lower key, having been completed later
C17_Witness ==
    /\ last.op = "kitchen_tabs"
    /\ Len(last.completed) = CompletedWindow
    /\ Matching(orders[last.id], "Dine-In", "Done") \ Listing(last.completed) # {}
    /\ \E i, j \in DOMAIN last.completed :
        /\ i < j
        /\ last.completed[i] > last.completed[j]
        /\ store[last.completed[i]]["timestamp"] = store[last.completed[j]]["timestamp"]

\* the run rendered a report
Reported == last.op = "analytics" /\ last.page = "report"

\* the orders of the report's selection that its two filters let through
Shown ==
    {k \in last.filtered :
        /\ last.type = "All" \/ (Has(store[k], "type") /\ store[k]["type"] = last.type)
        /\ last.status = "All" \/ store[k]["status"] = last.status}

C19_EmptySelection ==
    (Reported /\ last.filtered = {}) =>
        /\ last.total_orders = 0
        /\ last.completion_rate = 0
        /\ last.ret

\* C20: the completion rate is the share of the selected orders that are Done
\* dine-in or Picked-Up take-out orders, as a percentage to the nearest tenth:
\* between 0 and 100, and 0 for an empty selection.
C20_CompletionRate ==
    Reported =>
        LET total == Cardinality(last.filtered)
            terminal == Cardinality({k \in last.filtered : Terminal(store[k])})
        IN /\ last.total_orders = total
           /\ last.completion_rate \in 0..1000
           /\ total = 0 => last.completion_rate = 0
           /\ 2 * (last.completion_rate * total - 1000 * terminal) <= total
           /\ 2 * (1000 * terminal - last.completion_rate * total) <= total

\* C20 witness: one of three selected orders is terminal, one is Ready and one
\* Pending: the rate shown is 33.3
C20_Witness ==
    /\ Reported
    /\ last.total_orders = 3
    /\ last.completion_rate = 333
    /\ \E k \in last.filtered : store[k]["status"] = "Ready"
    /\ \E k \in last.filtered : store[k]["status"] = "Pending"

\* C25: the timestamps of every stored order agree with its status:
\* completed_at is absent exactly when the status is Pending, and
\* picked_up_at is present exactly when the status is Picked-Up.
C25_StampsMatchStatus ==
    \A id \in DOMAIN store :
        /\ ~Has(store[id], "completed_at") <=> store[id]["status"] = "Pending"
        /\ Has(store[id], "picked_up_at") <=> store[id]["status"] = "Picked-Up"

\* C26: after every render of a dashboard session that read the store,
\* previous_order_count is the number of Pending orders the render saw (so
\* that the next render with more Pending orders plays the sound).
C26_CountFollowsRender ==
    (last.op = "kitchen_run" /\ last.ret) =>
        session_state[last.id]["previous_order_count"] = total_pending(orders[last.id])

\* the instant t lies in hour h of some day; it lies in day d
HourIs(t, h) ==
    \E d \in 0..(t \div SecondsPerDay) :
        /\ d * SecondsPerDay + h * SecondsPerHour <= t
        /\ t < d * SecondsPerDay + (h + 1) * SecondsPerHour
DayIs(t, d) == d * SecondsPerDay <= t /\ t < (d + 1) * SecondsPerDay

\* the selected orders created in hour h, and on day d
InHour(h) == {k \in last.filtered : HourIs(store[k]["timestamp"], h)}
OnDay(d) == {k \in last.filtered : DayIs(store[k]["timestamp"], d)}

\* buckets[0] + ... + buckets[h]
RECURSIVE SumTo(_, _)
SumTo(buckets, h) == IF h < 0 THEN 0 ELSE buckets[h] + SumTo(buckets, h - 1)

\* C21: the hourly chart of a selection with orders has exactly 24 buckets,
\* hours 0..23; bucket h is the number of selected orders created in hour h of
\* any day, 0 when there is none, and the buckets add up to the number of
\* selected orders.
C21_HourlyBuckets ==
    (Reported /\ last.filtered # {}) =>
        /\ DOMAIN last.hourly = 0..23
        /\ \A h \in 0..23 : last.hourly[h] = Cardinality(InHour(h))
        /\ SumTo(last.hourly, 23) = Cardinality(last.filtered)

\* C21 witness: two orders of hour 9, on different days, and one of hour 14
C21_Witness ==
    /\ Reported /\ last.filtered # {}
    /\ last.hourly[9] = 2 /\ last.hourly[14] = 1
    /\ \E j, k \in InHour(9) : store[j]["timestamp"] # store[k]["timestamp"]

\* C22: the peak-hours list holds the at most 5 busiest hours, busiest first,
\* hours of equal count earlier hour first, also where the list is cut.
C22_PeakHoursEarlierFirst ==
    Reported =>
        LET rows == last.peak_hours
            busy == {h \in 0..23 : InHour(h) # {}}
        IN /\ Listing(rows) \subseteq busy
           /\ Cardinality(Listing(rows)) = Len(rows)
           /\ Len(rows) = IF Cardinality(busy) < 5 THEN Cardinality(busy) ELSE 5
           /\ \A i, j \in DOMAIN rows : i < j =>
                \/ Cardinality(InHour(rows[i])) > Cardinality(InHour(rows[j]))
                \/ /\ Cardinality(InHour(rows[i])) = Cardinality(InHour(rows[j]))
                   /\ rows[i] < rows[j]
           /\ \A h \in busy \ Listing(rows) : \A i \in DOMAIN rows :
                \/ Cardinality(InHour(h)) < Cardinality(InHour(rows[i]))
                \/ /\ Cardinality(InHour(h)) = Cardinality(InHour(rows[i]))
                   /\ h > rows[i]

\* C23: the daily trend has one row per day on which a selected order was
\* created, in strictly ascending order of the day; a row's total is the
\* number of selected orders of that day, and its dine-in and take-out counts
\* add up to the total.
C23_DailyTrend ==
    Reported =>
        LET rows == last.daily IN
        /\ \A i, j \in DOMAIN rows : i < j => rows[i].date < rows[j].date
        /\ \A k \in last.filtered : \E i \in DOMAIN rows : DayIs(store[k]["timestamp"], rows[i].date)
        /\ \A i \in DOMAIN rows :
            /\ OnDay(rows[i].date) # {}
            /\ rows[i].total = Cardinality(OnDay(rows[i].date))
            /\ rows[i].dine_in + rows[i].takeout = rows[i].total

\* C23 witness: a trend of two days, one of them with a dine-in and a
\* take-out order
C23_Witness ==
    /\ Reported
    /\ Len(last.daily) = 2
    /\ \E i \in DOMAIN last.daily : last.daily[i].dine_in = 1 /\ last.daily[i].takeout = 1

\* the selected take-out orders, and those of customer c
TakeOutSelected == {k \in last.filtered : Has(store[k], "type") /\ store[k]["type"] = "Take-Out"}
OrdersOf(c) == {k \in TakeOutSelected : store[k]["customer_name"] = c}

\* the key of the first selected take-out order of customer c
FirstSeen(c) == CHOOSE k \in OrdersOf(c) : \A j \in OrdersOf(c) : k <= j

\* C24: when take-out orders are selected, the ASAP count is the number of
\* them whose pickup time is the text "ASAP" and the scheduled count is the
\* number of the others; the top customers are the at most 5 names with the
\* most selected take-out orders, most orders first, names of equal count in
\* the order in which they first appear.
C24_TakeOutBreakdown ==
    (Reported /\ TakeOutSelected # {}) =>
        LET rows == last.top_customers
            names == {store[k]["customer_name"] : k \in TakeOutSelected}
        IN /\ last.pickup[1] = Cardinality({k \in TakeOutSelected : store[k]["pickup_time"] = ASAP})
           /\ last.pickup[2] = Cardinality({k \in TakeOutSelected : store[k]["pickup_time"] # ASAP})
           /\ Listing(rows) \subseteq names
           /\ Cardinality(Listing(rows)) = Len(rows)
           /\ Len(rows) = IF Cardinality(names) < 5 THEN Cardinality(names) ELSE 5
           /\ \A i, j \in DOMAIN rows : i < j =>
                \/ Cardinality(OrdersOf(rows[i])) > Cardinality(OrdersOf(rows[j]))
                \/ /\ Cardinality(OrdersOf(rows[i])) = Cardinality(OrdersOf(rows[j]))
                   /\ FirstSeen(rows[i]) < FirstSeen(rows[j])
           /\ \A c \in names \ Listing(rows) : \A i \in DOMAIN rows :
                \/ Cardinality(OrdersOf(c)) < Cardinality(OrdersOf(rows[i]))
                \/ /\ Cardinality(OrdersOf(c)) = Cardinality(OrdersOf(rows[i]))
                   /\ FirstSeen(c) > FirstSeen(rows[i])

\* C24 witness: ASAP and scheduled orders of 5 customers; the customer with
\* the most orders is listed first and was not seen first, and two customers
\* of equal count follow
C24_Witness ==
    /\ Reported /\ TakeOutSelected # {}
    /\ last.pickup[1] > 0 /\ last.pickup[2] > 0
    /\ Len(last.top_customers) = 5
    /\ \E c \in Listing(last.top_customers) : FirstSeen(c) < FirstSeen(last.top_customers[1])
    /\ Cardinality(OrdersOf(last.top_customers[2])) = Cardinality(OrdersOf(last.top_customers[3]))

====
